---- MODULE Spec2Model ----
(***************************************************************************)
(* Model of the three command-line tools of synology-alert-captures:       *)
(*   send_mock_alerts.py    the Alert Replayer                             *)
(*   trigger_alerts.py      the Remote Command Trigger (ssh)               *)
(*   trigger_alerts_api.py  the Managed API Session Client                 *)
(* One run of one tool is one behaviour: Init draws the tool, its command  *)
(* line and its environment, the actions are the steps of its main().      *)
(* Python strings whose characters matter (names that are sorted, lowered  *)
(* or searched) are sequences of one-character strings.                    *)
(***************************************************************************)
EXTENDS Integers, Sequences, FiniteSets, TLC

\* ------------------------------------------------------------------ bounds
MaxFixtures == 2      \* fixture files loaded by one run of the replayer
MaxProviders == 2     \* webhook providers the device lists
MaxCatalog == 2       \* API names in the device's catalog answer

\* ------------------------------------------------------- python strings
UpperAlpha == <<"A","B","C","D","E","F","G","H","I","J","K","L","M",
                "N","O","P","Q","R","S","T","U","V","W","X","Y","Z">>
LowerAlpha == <<"a","b","c","d","e","f","g","h","i","j","k","l","m",
                "n","o","p","q","r","s","t","u","v","w","x","y","z">>

IsUpper(c) == \E i \in 1..Len(UpperAlpha) : UpperAlpha[i] = c
IsLower(c) == \E i \in 1..Len(LowerAlpha) : LowerAlpha[i] = c

\* ord(c) for the characters the model uses
Ord(c) ==
    IF IsUpper(c) THEN 64 + (CHOOSE i \in 1..Len(UpperAlpha) : UpperAlpha[i] = c)
    ELSE IF IsLower(c) THEN 96 + (CHOOSE i \in 1..Len(LowerAlpha) : LowerAlpha[i] = c)
    ELSE IF c = "." THEN 46
    ELSE IF c = "_" THEN 95
    ELSE 0

LowerChar(c) ==
    IF IsUpper(c)
    THEN LowerAlpha[CHOOSE i \in 1..Len(UpperAlpha) : UpperAlpha[i] = c]
    ELSE c

\* str.lower()
Lower(s) == [i \in 1..Len(s) |-> LowerChar(s[i])]

\* python's  a < b  on strings: lexicographic by code point
RECURSIVE StrLessFrom(_, _, _)
StrLessFrom(a, b, i) ==
    IF i > Len(b) THEN FALSE
    ELSE IF i > Len(a) THEN TRUE
    ELSE IF Ord(a[i]) < Ord(b[i]) THEN TRUE
    ELSE IF Ord(a[i]) > Ord(b[i]) THEN FALSE
    ELSE StrLessFrom(a, b, i + 1)

StrLess(a, b) == StrLessFrom(a, b, 1)

\* python's  kw in s
Contains(s, kw) ==
    \E i \in 0..(Len(s) - Len(kw)) :
        \A j \in 1..Len(kw) : s[i + j] = kw[j]

Range(s) == {s[i] : i \in 1..Len(s)}

\* an Optional[str] command-line argument: None, or a string (maybe empty)
None == [set |-> FALSE, v |-> <<>>]
Some(s) == [set |-> TRUE, v |-> s]
\* python truthiness of an Optional[str]
Truthy(a) == a.set /\ a.v # <<>>

\* sequences without repetition over a set, up to a length
DistinctSeqs(S, n) ==
    UNION {{s \in [1..k -> S] : \A i, j \in 1..k : i # j => s[i] # s[j]} : k \in 0..n}

\* ============================== the Alert Replayer (send_mock_alerts.py)
VARIABLES
    tool,        \* which of the three tools this run is
    alerts,      \* load_mock_alerts(): fixtures in loading order
    rargs,       \* the replayer's parsed command line
    rpc,         \* position in the replayer's main()
    filtered,    \* the filtered dict, in insertion order
    order,       \* sorted(filtered.items())
    ridx,        \* index of the next fixture of order
    results,     \* results["success"], results["failed"]
    posts,       \* one entry per send_alert call (one webhook POST): name, returned flag
    wouldSend,   \* names printed as "Would send"
    sleeps,      \* names after whose send time.sleep(delay) ran
    lastPost,    \* outcome of the latest POST
    rexit        \* exit status of the replayer, -1 while running

rvars == <<alerts, rargs, rpc, filtered, order, ridx, results, posts,
           wouldSend, sleeps, lastPost, rexit>>

\* fixture files of mock_alerts/ : name (file stem), category, level
N_srv == <<"s","r","v">>
N_disk == <<"d","i","s","k">>
N_Net == <<"N","e","t">>
N_ups == <<"u","p","s">>
N_nope == <<"n","o","p","e">>
Cat_Storage == <<"S","t","o","r","a","g","e">>
Cat_storage == <<"s","t","o","r","a","g","e">>
Cat_STORAGE == <<"S","T","O","R","A","G","E">>
Cat_Hardware == <<"H","a","r","d","w","a","r","e">>
Cat_hardware == <<"h","a","r","d","w","a","r","e">>

FixturePool ==
    { [name |-> N_srv,  category |-> Cat_Storage,  level |-> "ERROR"],
      [name |-> N_disk, category |-> Cat_Hardware, level |-> "WARN"],
      [name |-> N_Net,  category |-> Cat_storage,  level |-> "ERROR"],
      [name |-> N_ups,  category |-> <<>>,         level |-> "INFO"] }

TypeArgs == {None, Some(<<>>), Some(N_srv), Some(N_nope)}
CategoryArgs == {None, Some(<<>>), Some(Cat_STORAGE), Some(Cat_hardware)}
LevelArgs == {"None", "ERROR", "WARN"}
DelayArgs == {0, 1}

\* send_alert: the statuses counted as delivered
AcceptedStatus == {200, 201, 202, 204}
\* what one requests.post can do: a status, or a RequestException (status 0)
PostOutcomes == {[exc |-> FALSE, status |-> c] : c \in AcceptedStatus \cup {404, 500}}
                    \cup {[exc |-> TRUE, status |-> 0]}
NoPost == [exc |-> FALSE, status |-> 0]

\* send_alert with only 200 counted as delivered
send_alert_only200(o) == (~o.exc) /\ o.status = 200

\* send_alert's return value for an outcome of the POST
send_alert(o) == (~o.exc) /\ o.status \in AcceptedStatus

\* the filter loop comparing the category without lower()
KeepsFixture_caseSensitive(a, args) ==
    /\ ~(Truthy(args.type) /\ a.name # args.type.v)
    /\ ~(Truthy(args.category) /\ a.category # args.category.v)
    /\ ~(args.level # "None" /\ a.level # args.level)

\* the three  continue  tests of the filter loop
KeepsFixture(a, args) ==
    /\ ~(Truthy(args.type) /\ a.name # args.type.v)
    /\ ~(Truthy(args.category) /\ Lower(a.category) # Lower(args.category.v))
    /\ ~(args.level # "None" /\ a.level # args.level)

\* filtered = {} ... filtered[name] = alert, in the order of alerts.items()
FilterAlerts(loaded, args) == SelectSeq(loaded, LAMBDA a : KeepsFixture(a, args))

\* sorted(filtered.items()): insertion sort by name (names are distinct)
RECURSIVE Insert(_, _)
Insert(a, s) ==
    IF s = <<>> THEN <<a>>
    ELSE IF StrLess(a.name, Head(s).name) THEN <<a>> \o s
    ELSE <<Head(s)>> \o Insert(a, Tail(s))

RECURSIVE SortedItems(_)
SortedItems(s) == IF s = <<>> THEN <<>> ELSE Insert(Head(s), SortedItems(Tail(s)))

\* args.delay > 0 and name != list(filtered.keys())[-1]
SleepsAfter(name, f, args) == args.delay > 0 /\ name # f[Len(f)].name

\* if args.dry_run:  taken as never set
DryRun_ignored(args) == FALSE

\* if args.dry_run:
DryRun(args) == args.dry_run

\* main() returning 0 whatever the counters
ReplayerStatus_alwaysZero(res) == 0

\* the value main() returns after the summary
ReplayerStatus(res) == IF res.failed = 0 THEN 0 ELSE 1

RInit ==
    /\ alerts \in DistinctSeqs(FixturePool, MaxFixtures)
    /\ rargs \in [type : TypeArgs, category : CategoryArgs, level : LevelArgs,
                  delay : DelayArgs, dry_run : BOOLEAN, list : BOOLEAN]
    /\ rpc = "start"
    /\ filtered = <<>>
    /\ order = <<>>
    /\ ridx = 1
    /\ results = [success |-> 0, failed |-> 0]
    /\ posts = <<>>
    /\ wouldSend = <<>>
    /\ sleeps = <<>>
    /\ lastPost = NoPost
    /\ rexit = -1

RIdle ==
    /\ alerts = <<>>
    /\ rargs = [type |-> None, category |-> None, level |-> "None",
                delay |-> 0, dry_run |-> FALSE, list |-> FALSE]
    /\ rpc = "off"
    /\ filtered = <<>>
    /\ order = <<>>
    /\ ridx = 1
    /\ results = [success |-> 0, failed |-> 0]
    /\ posts = <<>>
    /\ wouldSend = <<>>
    /\ sleeps = <<>>
    /\ lastPost = NoPost
    /\ rexit = -1

\* main() up to the send loop: load, list mode, filter, empty check
ReplayerStart ==
    /\ tool = "replayer" /\ rpc = "start"
    /\ IF alerts = <<>>
       THEN /\ rpc' = "done" /\ rexit' = 1
            /\ UNCHANGED <<filtered, order>>
       ELSE IF rargs.list
       THEN /\ rpc' = "done" /\ rexit' = 0
            /\ UNCHANGED <<filtered, order>>
       ELSE /\ filtered' = FilterAlerts(alerts, rargs)
            /\ IF filtered' = <<>>
               THEN /\ rpc' = "done" /\ rexit' = 1 /\ order' = <<>>
               ELSE /\ rpc' = "loop" /\ rexit' = -1
                    /\ order' = SortedItems(filtered')
    /\ UNCHANGED <<tool, alerts, rargs, ridx, results, posts, wouldSend, sleeps, lastPost>>

\* one iteration of  for name, alert in sorted(filtered.items())  in dry-run
ReplayerDryRun ==
    /\ tool = "replayer" /\ rpc = "loop" /\ ridx <= Len(order)
    /\ DryRun(rargs)
    /\ wouldSend' = Append(wouldSend, order[ridx].name)
    /\ results' = [results EXCEPT !.success = @ + 1]
    /\ ridx' = ridx + 1
    /\ UNCHANGED <<tool, alerts, rargs, rpc, filtered, order, posts, sleeps, lastPost, rexit>>

\* one iteration of the loop when sending: send_alert, count, maybe sleep
ReplayerSend ==
    /\ tool = "replayer" /\ rpc = "loop" /\ ridx <= Len(order)
    /\ ~DryRun(rargs)
    /\ \E o \in PostOutcomes :
        /\ lastPost' = o
        /\ posts' = Append(posts, [name |-> order[ridx].name, ok |-> send_alert(o)])
        /\ results' = IF send_alert(o)
                      THEN [results EXCEPT !.success = @ + 1]
                      ELSE [results EXCEPT !.failed = @ + 1]
    /\ sleeps' = IF SleepsAfter(order[ridx].name, filtered, rargs)
                 THEN Append(sleeps, order[ridx].name)
                 ELSE sleeps
    /\ ridx' = ridx + 1
    /\ UNCHANGED <<tool, alerts, rargs, rpc, filtered, order, wouldSend, rexit>>

\* the summary and the return of main()
ReplayerSummary ==
    /\ tool = "replayer" /\ rpc = "loop" /\ ridx > Len(order)
    /\ rpc' = "done"
    /\ rexit' = ReplayerStatus(results)
    /\ UNCHANGED <<tool, alerts, rargs, filtered, order, ridx, results, posts,
                   wouldSend, sleeps, lastPost>>

\* ================== the Managed API Session Client (trigger_alerts_api.py)
VARIABLES
    aargs,       \* the client's parsed command line: the mode
    apc,         \* position in the client's main()
    session_id,  \* self.session_id: "None", or the stored token (maybe "")
    requests,    \* the form data of every requests.post, in order
    atrace,      \* the calls of the run, with the sleeps, in order
    provider_list, \* providers of the listing answer, as run_all_tests reads them
    widx,        \* index of the next provider to test
    lastResult,  \* the dict the latest _request returned
    lastOutcome, \* what became of the latest requests.post exchange
    failures,    \* number of in-session calls that returned success false
    loginOk,     \* "none", "ok" or "failed": what login() returned
    login_sid,   \* the data.sid of the success answer to login ("" before)
    raised,      \* an exception is propagating out of the try block
    printed,     \* the set of status lines printed so far
    notification_apis, \* what discover_notification_apis returned
    catalog,     \* the names of the catalog answer, in its order
    aexit        \* exit status of the client, -1 while running

avars == <<aargs, apc, session_id, requests, atrace, provider_list, widx,
           lastResult, lastOutcome, failures, loginOk, login_sid, raised, printed, notification_apis,
           catalog, aexit>>

Modes == {"discover", "config", "all"}

\* what one POST of _request can end in: a success answer, a success false
\* answer of the device, a requests.RequestException (caught), or another
\* exception (a body that is not JSON under an older requests, a malformed
\* answer), which leaves _request or the method that reads its result
ReqOutcomes == {"ok", "refused", "transport", "raise"}
\* the sid values of a success answer to login
LoginSids == {"S1", ""}

NoResult == [success |-> FALSE, error |-> "none"]

\* a transport failure escaping _request too
Raises_transportToo(o) == o \in {"raise", "transport"}

\* _request:  except requests.RequestException  -- the outcomes it does not
\* catch leave it as an exception
Raises(o) == o = "raise"

\* if self.session_id:
HasSession(sid) == sid # "None" /\ sid # ""

\* the data dict posted without the _sid field
RequestData_noSid(api, method, version, params, sid) ==
    [api |-> api, method |-> method, version |-> version, params |-> params,
     has_sid |-> FALSE, sid |-> ""]

\* the data dict _request posts: api, version, method, **params, and _sid
RequestData(api, method, version, params, sid) ==
    [api |-> api, method |-> method, version |-> version, params |-> params,
     has_sid |-> HasSession(sid), sid |-> IF HasSession(sid) THEN sid ELSE ""]

\* the dict _request returns (for the outcomes that return)
RequestResult(o) ==
    IF o = "ok" THEN [success |-> TRUE, error |-> ""]
    ELSE IF o = "transport" THEN [success |-> FALSE, error |-> "RequestException"]
    ELSE [success |-> FALSE, error |-> "device"]

\* the names of the device's API catalog
A_Auth == <<"S","Y","N","O",".","A","P","I",".","A","u","t","h">>
A_Backup == <<"S","Y","N","O",".","B","a","c","k","u","p",".","T","a","s","k">>
A_Note == <<"S","Y","N","O",".","N","o","t","e">>
A_Push == <<"S","Y","N","O",".","C","o","r","e",".","N","o","t","i","f","i","c","a","t","i","o","n",".","P","u","s","h">>
A_SMS == <<"S","Y","N","O",".","S","M","S">>
A_Mail == <<"S","Y","N","O",".","M","a","i","l","C","l","i","e","n","t">>
A_Webhook == <<"S","Y","N","O",".","W","e","b","h","o","o","k">>
A_Alert == <<"S","Y","N","O",".","A","l","e","r","t","H","u","b">>
ApiNamePool == {A_Auth, A_Backup, A_Note, A_Push, A_SMS, A_Mail, A_Webhook, A_Alert}

Keywords == << <<"n","o","t","i","f">>, <<"a","l","e","r","t">>, <<"p","u","s","h">>,
               <<"m","a","i","l">>, <<"s","m","s">>, <<"w","e","b","h","o","o","k">> >>

\* the keyword test without lower()
IsNotificationApi_caseSensitive(api_name) ==
    \E k \in 1..Len(Keywords) : Contains(api_name, Keywords[k])

\* any(keyword in api_name.lower() for keyword in [...])
IsNotificationApi(api_name) ==
    \E k \in 1..Len(Keywords) : Contains(Lower(api_name), Keywords[k])

\* the loop of discover_notification_apis over api_info["data"].items()
NotificationApis(names) == SelectSeq(names, IsNotificationApi)

\* a provider of the listing answer: profile_id may be missing
ProviderPool == {[has_id |-> TRUE, profile_id |-> "7"], [has_id |-> TRUE, profile_id |-> "9"],
                 [has_id |-> FALSE, profile_id |-> ""]}
\* provider.get("profile_id", 1)
ProfileId(p) == IF p.has_id THEN p.profile_id ELSE "1"

SeqsUpTo(S, n) == UNION {[1..k -> S] : k \in 0..n}

AInit ==
    /\ aargs \in [mode : Modes]
    /\ apc = "login"
    /\ session_id = "None"
    /\ requests = <<>>
    /\ atrace = <<>>
    /\ provider_list = <<>>
    /\ widx = 1
    /\ lastResult = NoResult
    /\ lastOutcome = "none"
    /\ failures = 0
    /\ loginOk = "none"
    /\ login_sid = ""
    /\ raised = FALSE
    /\ printed = {}
    /\ notification_apis = <<>>
    /\ catalog = <<>>
    /\ aexit = -1

AIdle ==
    /\ aargs = [mode |-> "all"]
    /\ apc = "off"
    /\ session_id = "None"
    /\ requests = <<>>
    /\ atrace = <<>>
    /\ provider_list = <<>>
    /\ widx = 1
    /\ lastResult = NoResult
    /\ lastOutcome = "none"
    /\ failures = 0
    /\ loginOk = "none"
    /\ login_sid = ""
    /\ raised = FALSE
    /\ printed = {}
    /\ notification_apis = <<>>
    /\ catalog = <<>>
    /\ aexit = -1

LoginParams == <<"account", "passwd", "session", "format">>

\* main() going on whatever login() returned
AfterLogin_ignoresFailure(ok, mode) ==
    IF mode = "discover" THEN "discover"
    ELSE IF mode = "config" THEN "config_push"
    ELSE "list"

\* main(): where the run goes once login() has returned
AfterLogin(ok, mode) ==
    IF ~ok THEN "done"
    ELSE IF mode = "discover" THEN "discover"
    ELSE IF mode = "config" THEN "config_push"
    ELSE "list"

\* login(), and main()'s  if not trigger.login(): return 1
login ==
    /\ tool = "api" /\ apc = "login"
    /\ requests' = Append(requests,
                          RequestData("SYNO.API.Auth", "login", 6, LoginParams, session_id))
    /\ atrace' = Append(atrace, <<"login", "">>)
    /\ \/ \E sid \in LoginSids :            \* success answer carrying data.sid
            /\ lastResult' = RequestResult("ok")
            /\ lastOutcome' = "ok"
            /\ session_id' = sid
            /\ loginOk' = "ok"
            /\ login_sid' = sid
            /\ printed' = printed \cup {"Login successful"}
            /\ apc' = AfterLogin(TRUE, aargs.mode)
            /\ aexit' = -1
       \/ \E o \in {"refused", "transport"} :  \* success false
            /\ ~Raises(o)
            /\ lastResult' = RequestResult(o)
            /\ lastOutcome' = o
            /\ loginOk' = "failed"
            /\ printed' = printed \cup {"Login failed"}
            /\ apc' = AfterLogin(FALSE, aargs.mode)
            /\ aexit' = IF apc' = "done" THEN 1 ELSE -1
            /\ UNCHANGED <<session_id, login_sid>>
       \/ /\ apc' = "done"                  \* success answer without data.sid,
          /\ aexit' = 1                     \* or _request raised: traceback
          /\ \E o \in ReqOutcomes : (o = "ok" \/ Raises(o)) /\ lastOutcome' = o
          /\ UNCHANGED <<lastResult, session_id, loginOk, login_sid, printed>>
    /\ UNCHANGED <<tool, aargs, provider_list, widx, failures, raised,
                   notification_apis, catalog>>

\* an exception leaving main() with no finally block
AfterRaise_noFinally == "done"

\* try: ... finally: trigger.logout()  -- where an exception of the block goes
AfterRaise == "logout"

\* one in-session call: the request, the trace entry, then the result (and the
\* trace entries after, the sleep) or the raise, which goes to main()'s finally;
\* next is the position after a call that returned
InSession(at, data, call, o, next, after) ==
    /\ tool = "api" /\ apc = at
    /\ requests' = Append(requests, data)
    /\ lastOutcome' = o
    /\ IF Raises(o)
       THEN /\ raised' = TRUE
            /\ apc' = AfterRaise
            /\ atrace' = Append(atrace, call)
            /\ UNCHANGED <<lastResult, failures>>
       ELSE /\ lastResult' = RequestResult(o)
            /\ failures' = IF o = "ok" THEN failures ELSE failures + 1
            /\ apc' = next
            /\ atrace' = Append(atrace, call) \o after
            /\ UNCHANGED raised
    /\ UNCHANGED <<tool, aargs, session_id, loginOk, login_sid, printed, aexit>>

\* run_all_tests: the position after the listing
AfterList(success, pl) == IF success /\ pl # <<>> THEN "webhook" ELSE "push"

\* run_all_tests: the position after the i-th webhook test
AfterWebhook(i, pl) == IF i < Len(pl) THEN "webhook" ELSE "push"

\* run_all_tests returning early when a call failed
Following_stopsOnFailure(at, success) ==
    IF ~success THEN "backup"
    ELSE IF at = "push" THEN "sms"
    ELSE IF at = "sms" THEN "health"
    ELSE IF at = "health" THEN "active"
    ELSE IF at = "active" THEN "backup"
    ELSE "logout"

\* run_all_tests and main(): the position after each later call, whatever it returned
Following(at, success) ==
    IF at = "push" THEN "sms"
    ELSE IF at = "sms" THEN "health"
    ELSE IF at = "health" THEN "active"
    ELSE IF at = "active" THEN "backup"
    ELSE "logout"

\* get_notification_config: the three requests
AfterConfig(at) ==
    IF at = "config_push" THEN "config_mail"
    ELSE IF at = "config_mail" THEN "config_webhook"
    ELSE "logout"

Sleep == << <<"sleep", "">> >>

list_webhook_providers ==
    /\ tool = "api" /\ apc = "list"
    /\ \E o \in ReqOutcomes :
        \E pl \in IF o = "ok" THEN SeqsUpTo(ProviderPool, MaxProviders) ELSE {<<>>} :
            /\ InSession("list",
                         RequestData("SYNO.Core.Notification.Push.Webhook.Provider",
                                     "list", 2, <<>>, session_id),
                         <<"list", "">>, o, AfterList(o = "ok", pl), <<>>)
            /\ provider_list' = pl
    /\ widx' = 1
    /\ UNCHANGED <<notification_apis, catalog>>

test_webhook_notification ==
    /\ tool = "api" /\ apc = "webhook"
    /\ widx <= Len(provider_list)
    /\ \E o \in ReqOutcomes :
        InSession("webhook",
                  RequestData("SYNO.Core.Notification.Push.Webhook.Provider",
                              "send_test", 2,
                              <<"profile_id", ProfileId(provider_list[widx])>>, session_id),
                  <<"webhook", ProfileId(provider_list[widx])>>, o,
                  AfterWebhook(widx, provider_list), Sleep)
    /\ widx' = widx + 1
    /\ UNCHANGED <<provider_list, notification_apis, catalog>>

test_push_notification ==
    /\ tool = "api" /\ apc = "push"
    /\ \E o \in ReqOutcomes :
        InSession("push", RequestData("SYNO.Core.Notification.Push", "send_test", 1,
                                      <<>>, session_id),
                  <<"push", "">>, o, Following("push", o = "ok"), Sleep)
    /\ UNCHANGED <<provider_list, widx, notification_apis, catalog>>

test_sms_notification ==
    /\ tool = "api" /\ apc = "sms"
    /\ \E o \in ReqOutcomes :
        InSession("sms", RequestData("SYNO.Core.Notification.SMS", "send_test", 1,
                                     <<>>, session_id),
                  <<"sms", "">>, o, Following("sms", o = "ok"), Sleep)
    /\ UNCHANGED <<provider_list, widx, notification_apis, catalog>>

get_system_health ==
    /\ tool = "api" /\ apc = "health"
    /\ \E o \in ReqOutcomes :
        InSession("health", RequestData("SYNO.Core.System.Status", "get", 1,
                                        <<>>, session_id),
                  <<"health", "">>, o, Following("health", o = "ok"), <<>>)
    /\ UNCHANGED <<provider_list, widx, notification_apis, catalog>>

get_active_notifications ==
    /\ tool = "api" /\ apc = "active"
    /\ \E o \in ReqOutcomes :
        InSession("active", RequestData("SYNO.Core.DSMNotify", "notify", 1,
                                        <<"action", "load">>, session_id),
                  <<"active", "">>, o, Following("active", o = "ok"), <<>>)
    /\ UNCHANGED <<provider_list, widx, notification_apis, catalog>>

list_backup_tasks ==
    /\ tool = "api" /\ apc = "backup"
    /\ \E o \in ReqOutcomes :
        InSession("backup", RequestData("SYNO.Backup.Task", "list", 1, <<>>, session_id),
                  <<"backup", "">>, o, Following("backup", o = "ok"), <<>>)
    /\ UNCHANGED <<provider_list, widx, notification_apis, catalog>>

get_notification_config ==
    /\ tool = "api" /\ apc \in {"config_push", "config_mail", "config_webhook"}
    /\ \E at \in {apc} :
        \E o \in ReqOutcomes :
            InSession(at,
                      RequestData(IF at = "config_push" THEN "SYNO.Core.Notification.Push.Conf"
                                  ELSE IF at = "config_mail" THEN "SYNO.Core.Notification.Mail.Conf"
                                  ELSE "SYNO.Core.Notification.Webhook",
                                  IF at = "config_webhook" THEN "list" ELSE "get",
                                  1, <<>>, session_id),
                      <<at, "">>, o, AfterConfig(at), <<>>)
    /\ UNCHANGED <<provider_list, widx, notification_apis, catalog>>

\* discover_notification_apis: get_api_info, then the keyword filter
discover_notification_apis ==
    /\ tool = "api" /\ apc = "discover"
    /\ \E o \in ReqOutcomes :
        \E names \in IF o = "ok" THEN DistinctSeqs(ApiNamePool, MaxCatalog) ELSE {<<>>} :
            /\ InSession("discover",
                         RequestData("SYNO.API.Info", "query", 1, <<"query", "all">>,
                                     session_id),
                         <<"discover", "">>, o, "logout", <<>>)
            /\ catalog' = names
            /\ notification_apis' = NotificationApis(names)
    /\ UNCHANGED <<provider_list, widx>>

\* the status main() ends with once the finally block has run
ApiStatus(exc) == IF exc THEN 1 ELSE 0

\* logout() leaving the stored token as it was
LoggedOut_keepsToken == session_id

\* logout():  self.session_id = None
LoggedOut == "None"

\* main()'s finally: logout(), then return 0 or the propagating exception
logout ==
    /\ tool = "api" /\ apc = "logout"
    /\ apc' = "done"
    /\ IF HasSession(session_id)
       THEN /\ requests' = Append(requests,
                                  RequestData("SYNO.API.Auth", "logout", 1,
                                              <<"session">>, session_id))
            /\ atrace' = Append(atrace, <<"logout", "">>)
            /\ \E o \in ReqOutcomes :
                /\ lastOutcome' = o
                /\ IF Raises(o)
                   THEN /\ aexit' = 1
                        /\ UNCHANGED <<session_id, lastResult, printed>>
                   ELSE /\ lastResult' = RequestResult(o)
                        /\ session_id' = LoggedOut
                        /\ printed' = printed \cup {"Logged out"}
                        /\ aexit' = ApiStatus(raised)
       ELSE /\ aexit' = ApiStatus(raised)
            /\ UNCHANGED <<requests, atrace, session_id, lastResult, lastOutcome, printed>>
    /\ UNCHANGED <<tool, aargs, provider_list, widx, failures, loginOk, login_sid, raised,
                   notification_apis, catalog>>

\* ======================= the Remote Command Trigger (trigger_alerts.py)
VARIABLES
    sargs,       \* the trigger's parsed command line
    sshenv,      \* which transports are installed: "sshpass", "ssh" (only), "none"
    spc,         \* position in the trigger's main()
    cmds,        \* every run_ssh_command call, in order: its command, sudo, transport
    warnings,    \* number of manual-credential warnings printed
    sresults,    \* results["success"], results["failed"]
    tidx,        \* index of the next catalog test of tests_to_run
    ssleeps,     \* number of time.sleep(delay) calls
    lastCmd,     \* the (code, stdout) the latest run_ssh_command returned
    sfailed,     \* ids of the commands after the check that returned a nonzero code
    stimeouts,   \* ids of the commands that timed out
    sexit        \* exit status of the trigger, -1 while running

svars == <<sargs, sshenv, spc, cmds, warnings, sresults, tidx, ssleeps, lastCmd,
           sfailed, stimeouts, sexit>>

\* the keys of NOTIFICATION_TESTS, in the order of the dict
NOTIFICATION_TESTS == <<"push", "mail", "sms", "push_mail">>
TestArgs == Range(NOTIFICATION_TESTS) \cup {"all"}
Msg == <<"h","i">>
CustomArgs == {None, Some(<<>>), Some(Msg)}

\* what the remote process of one command can do: exit with a code and a
\* stdout (holding the marker or not), or exceed the 30 s
CmdOutcomes ==
    {[timeout |-> FALSE, code |-> c, out |-> t] : c \in {0, 1}, t \in {"successful", ""}}
        \cup {[timeout |-> TRUE, code |-> 0, out |-> ""]}
NoCmd == [code |-> 0, out |-> ""]

\* a timeout returned as an exit with code 0
RunResult_timeoutIsSuccess(o) == [code |-> IF o.timeout THEN 0 ELSE o.code, out |-> IF o.timeout THEN "" ELSE o.out]

\* subprocess.run: the tuple returned, (-1, "", "Command timed out") on a timeout
RunResult(o) == IF o.timeout THEN [code |-> -1, out |-> ""] ELSE [code |-> o.code, out |-> o.out]

\* run_ssh_command: the transport that runs the command; without sshpass the
\* FileNotFoundError handler calls run_ssh_without_sshpass, and without ssh
\* too nothing runs
Transport(env) == IF env = "sshpass" THEN "sshpass" ELSE IF env = "ssh" THEN "ssh" ELSE "none"

\* the entry of cmds for one run_ssh_command call
Cmd(id, sudo, env) == [id |-> id, sudo |-> sudo, transport |-> Transport(env)]

\* the check looking at the exit code only
ConnectionOk_codeOnly(r) == r.code = 0

\* test_ssh_connection:  code == 0 and "successful" in stdout
ConnectionOk(r) == r.code = 0 /\ r.out = "successful"

\* tests_to_run
TestsToRun(test) == IF test = "all" THEN NOTIFICATION_TESTS ELSE <<test>>

\* main() going to the catalog tests whatever --custom holds
AfterConnection_ignoresCustom(args) == IF args.discover THEN "discover" ELSE "tests"

\* main(): the position after a passed connectivity check
AfterConnection(args) ==
    IF args.discover THEN "discover"
    ELSE IF Truthy(args.custom) THEN "custom"
    ELSE "tests"

\* main(): the position after list_available_apis
AfterDiscover(args) == IF Truthy(args.custom) THEN "custom" ELSE "tests"

\* the value main() returns after the summary
TriggerStatus(res) == IF res.failed = 0 THEN 0 ELSE 1

SInit ==
    /\ sargs \in [list : BOOLEAN, hostuser : BOOLEAN, test : TestArgs,
                  custom : CustomArgs, discover : BOOLEAN, delay : DelayArgs]
    /\ sshenv \in {"sshpass", "ssh", "none"}
    /\ spc = "start"
    /\ cmds = <<>>
    /\ warnings = 0
    /\ sresults = [success |-> 0, failed |-> 0]
    /\ tidx = 1
    /\ ssleeps = 0
    /\ lastCmd = NoCmd
    /\ sfailed = {}
    /\ stimeouts = {}
    /\ sexit = -1

SIdle ==
    /\ sargs = [list |-> FALSE, hostuser |-> TRUE, test |-> "all",
                custom |-> None, discover |-> FALSE, delay |-> 0]
    /\ sshenv = "sshpass"
    /\ spc = "off"
    /\ cmds = <<>>
    /\ warnings = 0
    /\ sresults = [success |-> 0, failed |-> 0]
    /\ tidx = 1
    /\ ssleeps = 0
    /\ lastCmd = NoCmd
    /\ sfailed = {}
    /\ stimeouts = {}
    /\ sexit = -1

\* main() before any remote command: --list, and the required arguments
trigger_main_args ==
    /\ tool = "ssh" /\ spc = "start"
    /\ IF sargs.list THEN spc' = "done" /\ sexit' = 0
       ELSE IF ~sargs.hostuser THEN spc' = "done" /\ sexit' = 2
       ELSE spc' = "conn" /\ sexit' = -1
    /\ UNCHANGED <<tool, sargs, sshenv, cmds, warnings, sresults, tidx, ssleeps,
                   lastCmd, sfailed, stimeouts>>

\* run_ssh_command for one command that returns: the log, the warning of the
\* fallback, the result
RunSsh(id, sudo, o) ==
    /\ sshenv # "none"
    /\ cmds' = Append(cmds, Cmd(id, sudo, sshenv))
    /\ warnings' = IF sshenv = "ssh" THEN warnings + 1 ELSE warnings
    /\ lastCmd' = RunResult(o)
    /\ stimeouts' = IF o.timeout THEN stimeouts \cup {id} ELSE stimeouts

\* test_ssh_connection, and main()'s  return 1  when it fails
test_ssh_connection ==
    /\ tool = "ssh" /\ spc = "conn"
    /\ \/ /\ sshenv = "none"      \* neither sshpass nor ssh: FileNotFoundError
          /\ cmds' = Append(cmds, Cmd("echo", FALSE, sshenv))
          /\ warnings' = warnings + 1
          /\ spc' = "done" /\ sexit' = 1
          /\ UNCHANGED <<lastCmd, stimeouts>>
       \/ \E o \in CmdOutcomes :
            /\ RunSsh("echo", FALSE, o)
            /\ IF ConnectionOk(RunResult(o))
               THEN spc' = AfterConnection(sargs) /\ sexit' = -1
               ELSE spc' = "done" /\ sexit' = 1
    /\ UNCHANGED <<tool, sargs, sshenv, sresults, tidx, ssleeps, sfailed>>

\* list_available_apis: the code of the command is not looked at
list_available_apis ==
    /\ tool = "ssh" /\ spc = "discover"
    /\ \E o \in CmdOutcomes : RunSsh("apiinfo", TRUE, o)
    /\ spc' = AfterDiscover(sargs)
    /\ UNCHANGED <<tool, sargs, sshenv, sresults, tidx, ssleeps, sfailed, sexit>>

\* send_custom_webhook_test (synodsmnotify, then synonotify if it failed),
\* and main()'s  return 0
send_custom_webhook_test ==
    /\ tool = "ssh" /\ spc = "custom"
    /\ sshenv # "none"
    /\ \E o1, o2 \in CmdOutcomes :
        IF RunResult(o1).code = 0
        THEN /\ RunSsh("synodsmnotify", TRUE, o1)
             /\ UNCHANGED sfailed
        ELSE /\ cmds' = cmds \o <<Cmd("synodsmnotify", TRUE, sshenv),
                                   Cmd("synonotify", TRUE, sshenv)>>
             /\ warnings' = IF sshenv = "ssh" THEN warnings + 2 ELSE warnings
             /\ lastCmd' = RunResult(o2)
             /\ stimeouts' = stimeouts \cup (IF o1.timeout THEN {"synodsmnotify"} ELSE {})
                                       \cup (IF o2.timeout THEN {"synonotify"} ELSE {})
             /\ sfailed' = sfailed \cup {"synodsmnotify"}
                               \cup (IF RunResult(o2).code = 0 THEN {} ELSE {"synonotify"})
    /\ spc' = "done" /\ sexit' = 0
    /\ UNCHANGED <<tool, sargs, sshenv, sresults, tidx, ssleeps>>

\* one iteration of  for test_name, test_config in tests_to_run
trigger_notification_test ==
    /\ tool = "ssh" /\ spc = "tests" /\ tidx <= Len(TestsToRun(sargs.test))
    /\ \E o \in CmdOutcomes :
        /\ RunSsh(TestsToRun(sargs.test)[tidx], TRUE, o)
        /\ IF RunResult(o).code = 0
           THEN /\ sresults' = [sresults EXCEPT !.success = @ + 1]
                /\ UNCHANGED sfailed
           ELSE /\ sresults' = [sresults EXCEPT !.failed = @ + 1]
                /\ sfailed' = sfailed \cup {TestsToRun(sargs.test)[tidx]}
    /\ ssleeps' = IF sargs.delay > 0 THEN ssleeps + 1 ELSE ssleeps
    /\ tidx' = tidx + 1
    /\ spc' = IF tidx' > Len(TestsToRun(sargs.test)) THEN "health" ELSE "tests"
    /\ UNCHANGED <<tool, sargs, sshenv, sexit>>

trigger_system_health_check ==
    /\ tool = "ssh" /\ spc = "health"
    /\ \E o \in CmdOutcomes :
        /\ RunSsh("health", TRUE, o)
        /\ sfailed' = IF RunResult(o).code = 0 THEN sfailed ELSE sfailed \cup {"health"}
    /\ spc' = "backup"
    /\ UNCHANGED <<tool, sargs, sshenv, sresults, tidx, ssleeps, sexit>>

\* trigger_backup_event, then the summary and the return of main()
trigger_backup_event ==
    /\ tool = "ssh" /\ spc = "backup"
    /\ \E o \in CmdOutcomes :
        /\ RunSsh("backup", TRUE, o)
        /\ sfailed' = IF RunResult(o).code = 0 THEN sfailed ELSE sfailed \cup {"backup"}
    /\ spc' = "done"
    /\ sexit' = TriggerStatus(sresults)
    /\ UNCHANGED <<tool, sargs, sshenv, sresults, tidx, ssleeps>>

\* ================================================== the specification
Init ==
    /\ tool \in {"replayer", "api", "ssh"}
    /\ IF tool = "replayer" THEN RInit ELSE RIdle
    /\ IF tool = "api" THEN AInit ELSE AIdle
    /\ IF tool = "ssh" THEN SInit ELSE SIdle

Next ==
    \/ ReplayerStart /\ UNCHANGED <<avars, svars>>
    \/ ReplayerDryRun /\ UNCHANGED <<avars, svars>>
    \/ ReplayerSend /\ UNCHANGED <<avars, svars>>
    \/ ReplayerSummary /\ UNCHANGED <<avars, svars>>
    \/ login /\ UNCHANGED <<rvars, svars>>
    \/ list_webhook_providers /\ UNCHANGED <<rvars, svars>>
    \/ test_webhook_notification /\ UNCHANGED <<rvars, svars>>
    \/ test_push_notification /\ UNCHANGED <<rvars, svars>>
    \/ test_sms_notification /\ UNCHANGED <<rvars, svars>>
    \/ get_system_health /\ UNCHANGED <<rvars, svars>>
    \/ get_active_notifications /\ UNCHANGED <<rvars, svars>>
    \/ list_backup_tasks /\ UNCHANGED <<rvars, svars>>
    \/ get_notification_config /\ UNCHANGED <<rvars, svars>>
    \/ discover_notification_apis /\ UNCHANGED <<rvars, svars>>
    \/ logout /\ UNCHANGED <<rvars, svars>>
    \/ trigger_main_args /\ UNCHANGED <<rvars, avars>>
    \/ test_ssh_connection /\ UNCHANGED <<rvars, avars>>
    \/ list_available_apis /\ UNCHANGED <<rvars, avars>>
    \/ send_custom_webhook_test /\ UNCHANGED <<rvars, avars>>
    \/ trigger_notification_test /\ UNCHANGED <<rvars, avars>>
    \/ trigger_system_health_check /\ UNCHANGED <<rvars, avars>>
    \/ trigger_backup_event /\ UNCHANGED <<rvars, avars>>

vars == <<tool, rvars, avars, svars>>
Spec == Init /\ [][Next]_vars

\* ============================================================ the claims
IsPrefix(s, t) == Len(s) <= Len(t) /\ \A i \in 1..Len(s) : s[i] = t[i]
Count(s, P(_)) == Cardinality({i \in 1..Len(s) : P(s[i])})
Names(s) == {s[i].name : i \in 1..Len(s)}
NamesOf(S) == {a.name : a \in S}

IsLogin(r) == r.api = "SYNO.API.Auth" /\ r.method = "login"
IsLogout(r) == r.api = "SYNO.API.Auth" /\ r.method = "logout"

\* C1: the first request of a run of the API client is the login; no other
\* request is issued unless login() returned true; and when the login answer
\* is success false the run prints the login failure and exits nonzero, the
\* login being the only request it issued.
C1_NoCallBeforeLogin ==
    tool = "api" =>
        /\ requests # <<>> => IsLogin(requests[1])
        /\ \A i \in 2..Len(requests) : ~IsLogin(requests[i])
        /\ Len(requests) > 1 => loginOk = "ok"
        /\ loginOk = "failed" =>
              /\ apc = "done"
              /\ aexit > 0
              /\ "Login failed" \in printed
              /\ Len(requests) = 1

\* C1 witness: a run whose login was answered success false has ended.
C1_Witness ==
    /\ tool = "api" /\ loginOk = "failed" /\ apc = "done"
    /\ ~lastResult.success /\ lastResult.error = "device"
    /\ Len(requests) = 1

\* C2 as stated: whenever login succeeded, the ended run has issued exactly
\* one logout request, an empty session token included.
C2_LogoutOnceAnyToken ==
    (tool = "api" /\ apc = "done" /\ loginOk = "ok") =>
        Count(requests, IsLogout) = 1

\* C2 amended: whenever login succeeded with a non-empty session token, the
\* ended run has issued exactly one logout request, in every mode and whether
\* the in-session calls succeeded, failed or raised; no run issues more than
\* one, and none is issued before the in-session calls are over.
C2_LogoutOnce ==
    tool = "api" =>
        /\ Count(requests, IsLogout) <= 1
        /\ apc # "done" => Count(requests, IsLogout) = 0
        /\ (apc = "done" /\ loginOk = "ok" /\ login_sid # "") =>
              /\ Count(requests, IsLogout) = 1
              /\ IsLogout(requests[Len(requests)])

\* C2 witness: an in-session call raised and the run still ended with the
\* logout request.
C2_Witness ==
    /\ tool = "api" /\ apc = "done" /\ loginOk = "ok" /\ login_sid # ""
    /\ raised
    /\ IsLogout(requests[Len(requests)])

\* two strings equal up to the case of their letters
SameIgnoringCase(x, y) ==
    /\ Len(x) = Len(y)
    /\ \A i \in 1..Len(x) :
          \/ x[i] = y[i]
          \/ \E k \in 1..Len(UpperAlpha) :
                {x[i], y[i]} = {UpperAlpha[k], LowerAlpha[k]}

\* the filter has run: main() is past the empty check
Filtered == tool = "replayer" /\ rpc \in {"loop", "done"} /\ alerts # <<>> /\ ~rargs.list

\* the fixtures a filter combination selects, with supplied(a) telling
\* whether the optional filter a constrains
Selected(supplied(_)) ==
    {a \in Range(alerts) :
        /\ supplied(rargs.type) => a.name = rargs.type.v
        /\ supplied(rargs.category) => SameIgnoringCase(a.category, rargs.category.v)
        /\ rargs.level # "None" => a.level = rargs.level}

IsGiven(a) == a.set
IsGivenNonEmpty(a) == a.set /\ Len(a.v) > 0

\* C3 as stated: the filtered set is exactly the fixtures matching every
\* supplied filter (a filter not given on the command line constrains
\* nothing), and nothing outside it is sent.
C3_FilterAsStated ==
    Filtered =>
        /\ Range(filtered) = Selected(IsGiven)
        /\ Names(posts) \subseteq NamesOf(Selected(IsGiven))

\* C3 amended: the filtered set is exactly the fixtures whose name equals the
\* name filter, whose category equals the category filter case-insensitively
\* and whose level equals the level filter, where a filter that is not given
\* or is given as the empty string constrains nothing; no fixture outside the
\* set is sent or announced, and the set keeps each fixture once.
C3_Filter ==
    Filtered =>
        /\ Range(filtered) = Selected(IsGivenNonEmpty)
        /\ Len(filtered) = Cardinality(Selected(IsGivenNonEmpty))
        /\ Names(posts) \subseteq NamesOf(Selected(IsGivenNonEmpty))
        /\ Range(wouldSend) \subseteq NamesOf(Selected(IsGivenNonEmpty))

\* C3 witness: a category filter in another case than the fixture's selects
\* one of two loaded fixtures, and it was sent.
C3_Witness ==
    /\ Filtered /\ rpc = "done"
    /\ rargs.category = Some(Cat_STORAGE) /\ ~rargs.type.set /\ rargs.level = "None"
    /\ Len(alerts) = 2 /\ Len(filtered) = 1
    /\ filtered[1].category = Cat_Storage
    /\ Len(posts) = 1 /\ posts[1].name = filtered[1].name

\* C4, one send: a POST changes exactly one counter by one, the success
\* counter for a status of 200, 201, 202 or 204 and the failure counter for
\* any other status or a transport exception, and the loop moves on.
C4_Step ==
    (tool = "replayer" /\ posts' # posts) =>
        /\ Len(posts') = Len(posts) + 1
        /\ IF ~lastPost'.exc /\ lastPost'.status \in {200, 201, 202, 204}
           THEN results' = [success |-> results.success + 1, failed |-> results.failed]
           ELSE results' = [success |-> results.success, failed |-> results.failed + 1]
        /\ ridx' = ridx + 1 /\ rpc' = "loop"

\* C4, the end: success + failed is the number of filtered fixtures.
C4_Final ==
    (Filtered /\ rpc = "done" /\ ~rargs.dry_run /\ filtered # <<>>) =>
        /\ results.success + results.failed = Len(filtered)
        /\ Len(posts) = Len(filtered)

\* C4: in a sending run each POST changes exactly one counter by one (success
\* for 200/201/202/204, failure otherwise), a failed send does not stop the
\* loop, and at the end success + failed is the number of filtered fixtures.
C4_Counters == [][C4_Step]_vars /\ [](C4_Final)

\* C4 witness: a run of two fixtures ended with a failed send followed by a
\* delivered one.
C4_Witness ==
    /\ Filtered /\ rpc = "done" /\ ~rargs.dry_run
    /\ Len(posts) = 2 /\ ~posts[1].ok /\ posts[2].ok
    /\ results = [success |-> 1, failed |-> 1]

\* C5: in dry-run mode no POST is issued at any point of the run, and the
\* ended run has printed exactly one "Would send" line for each filtered
\* fixture.
C5_DryRun ==
    (tool = "replayer" /\ rargs.dry_run) =>
        /\ posts = <<>>
        /\ lastPost = NoPost
        /\ Len(wouldSend) <= Len(filtered)
        /\ (rpc = "done" /\ filtered # <<>>) =>
              /\ Len(wouldSend) = Len(filtered)
              /\ \A i \in 1..Len(filtered) :
                    Count(wouldSend, LAMBDA n : n = filtered[i].name) = 1

\* C5 witness: a dry run over two filtered fixtures has ended.
C5_Witness ==
    /\ tool = "replayer" /\ rargs.dry_run /\ rpc = "done"
    /\ Len(filtered) = 2 /\ Len(wouldSend) = 2

\* the names of the catalog pool that hold, in any case, one of notif, alert,
\* push, mail, sms, webhook
NotificationNames == {A_Push, A_SMS, A_Mail, A_Webhook, A_Alert}

\* discover_notification_apis has just returned what it built from an
\* answered catalog query
Discovered ==
    /\ tool = "api" /\ aargs.mode = "discover" /\ apc = "logout"
    /\ ~raised /\ lastResult.success

\* C6: after a successful catalog query the returned list holds a catalog
\* name exactly once when the name contains, case-insensitively, one of the
\* six keywords, holds no other catalog name, and holds nothing that is not
\* in the catalog.
C6_Discovery ==
    Discovered =>
        /\ \A n \in Range(catalog) :
              Count(notification_apis, LAMBDA m : m = n)
                  = (IF n \in NotificationNames THEN 1 ELSE 0)
        /\ Range(notification_apis) \subseteq Range(catalog)

\* C6 witness: a catalog of an upper-case match and a near miss returned
\* the match alone.
C6_Witness ==
    /\ Discovered
    /\ catalog = <<A_Note, A_SMS>>
    /\ notification_apis = <<A_SMS>>

\* C7: outside list mode the replayer ends with status 0 exactly when at
\* least one fixture survived the filter and no send failed, and with a
\* nonzero status otherwise.
C7_ExitStatus ==
    (tool = "replayer" /\ rpc = "done" /\ ~rargs.list) =>
        /\ rexit \in {0, 1}
        /\ rexit = 0 <=>
              /\ Cardinality(Selected(IsGivenNonEmpty)) >= 1
              /\ \A i \in 1..Len(posts) : posts[i].ok

\* C7 witness: a run whose filter kept two fixtures ended nonzero because
\* one send failed.
C7_Witness ==
    /\ tool = "replayer" /\ rpc = "done" /\ ~rargs.list
    /\ Len(filtered) = 2 /\ Len(posts) = 2
    /\ posts[1].ok /\ ~posts[2].ok
    /\ rexit = 1

\* C8 as stated: an ended run of the remote trigger or of the API client has
\* status 0 only when no operation it issued failed, and status 1 whenever
\* one did (a catalog test, a health, backup or custom command, an
\* in-session API call).
C8_ExitReflectsFailures ==
    /\ (tool = "api" /\ apc = "done" /\ loginOk = "ok") =>
          (aexit = 0 <=> failures = 0)
    /\ (tool = "ssh" /\ spc = "done" /\ Len(cmds) > 1) =>
          (sexit = 0 <=> sfailed = {})

\* the calls of run_all_tests in the trace: no sleep, no login, nothing of main()
IsRunAllCall(e) == e[1] \in {"list", "webhook", "push", "sms", "health", "active"}
RunAllCalls == SelectSeq(atrace, IsRunAllCall)

\* the order the claim gives for a listing that returned pl
ExpectedCalls(pl) ==
    << <<"list", "">> >>
        \o [i \in 1..Len(pl) |-> <<"webhook", IF pl[i].has_id THEN pl[i].profile_id ELSE "1">>]
        \o << <<"push", "">>, <<"sms", "">>, <<"health", "">>, <<"active", "">> >>

\* C9: the calls of run_all_tests are issued in the order list, one webhook
\* test per listed provider in list order (none when the listing failed),
\* push, sms, health, active; every webhook test is followed at once by the
\* delay unless it raised (then only the logout follows); and a run_all_tests that returned has issued push, sms,
\* health and active whatever the earlier calls returned.
C9_RunAllOrder ==
    (tool = "api" /\ aargs.mode = "all") =>
        /\ IsPrefix(RunAllCalls, ExpectedCalls(provider_list))
        /\ \A i \in 1..Len(atrace) :
              atrace[i][1] = "webhook" =>
                  \/ i < Len(atrace) /\ atrace[i + 1] = <<"sleep", "">>
                  \/ raised /\ \A j \in (i + 1)..Len(atrace) : atrace[j][1] = "logout"
        /\ (apc = "backup" \/ (apc \in {"logout", "done"} /\ ~raised /\ loginOk = "ok")) =>
              RunAllCalls = ExpectedCalls(provider_list)

\* C9 witness: run_all_tests returned after two webhook tests and with at
\* least three calls answered success false.
C9_Witness ==
    /\ tool = "api" /\ aargs.mode = "all" /\ apc = "backup"
    /\ Len(provider_list) = 2
    /\ failures >= 3
    /\ Len(RunAllCalls) = 7

IsEcho(c) == c.id = "echo"

\* C10, the states: the first remote command is the unprivileged check, it
\* is run once, and when it does not exit 0 with the marker the run has ended
\* with status 1 with no other command run.
C10_State ==
    tool = "ssh" =>
        /\ cmds # <<>> => (IsEcho(cmds[1]) /\ ~cmds[1].sudo)
        /\ Count(cmds, IsEcho) <= 1
        /\ (Len(cmds) = 1 /\ ~(lastCmd.code = 0 /\ lastCmd.out = "successful")) =>
              (spc = "done" /\ sexit = 1)

\* C10, the steps: an ended run runs no further command.
C10_Step == (tool = "ssh" /\ spc = "done") => cmds' = cmds

\* C10: the first remote command is the unprivileged connectivity check; when
\* it does not exit 0 with the marker in its output the run ends with status
\* 1 having run no other command, and the check is never run again.
C10_ConnectivityFirst == [](C10_State) /\ [][C10_Step]_vars

\* C10 witness: the check exited 0 without the marker and the run ended with
\* status 1 after that one command.
C10_Witness ==
    /\ tool = "ssh" /\ spc = "done" /\ sexit = 1
    /\ sshenv = "sshpass"
    /\ Len(cmds) = 1 /\ lastCmd = [code |-> 0, out |-> ""]

\* the commands whose exit code the caller examines after the connectivity
\* check (list_available_apis looks at the output only)
ExaminedIds == Range(NOTIFICATION_TESTS) \cup {"health", "backup", "synodsmnotify", "synonotify"}

\* the commands that end a run that passed the connectivity check
FinalIds == {"backup", "synodsmnotify", "synonotify"}

\* the timed-out commands of S are reported failed, the catalog tests among
\* them counted as failed, and the ended run ran on to the last call of its path
TimeoutsNonFatal(S) ==
    /\ \A id \in S \cap ExaminedIds : id \in sfailed
    /\ Cardinality(S \cap Range(NOTIFICATION_TESTS)) <= sresults.failed
    /\ (S # {} /\ spc = "done") => cmds[Len(cmds)].id \in FinalIds

\* C11 as stated: a timeout of any remote command, the connectivity check
\* included, is reported as a failure of that command and the run goes on to
\* its next call.
C11_AnyTimeoutNonFatal == tool = "ssh" => TimeoutsNonFatal(stimeouts)

\* C11: a timeout of a remote command that follows the connectivity check is
\* a failure of that command only (reported failed, a catalog test counted as
\* failed) and the run goes on to the last call of its path; a timeout of the
\* connectivity check itself ends the run with status 1 after that command.
C11_TimeoutNonFatal ==
    tool = "ssh" =>
        /\ TimeoutsNonFatal(stimeouts \ {"echo"})
        /\ "echo" \in stimeouts => (spc = "done" /\ sexit = 1 /\ Len(cmds) = 1)

\* C11 witness: the first catalog test timed out and the run went on through
\* the remaining tests, the health query and the backup listing.
C11_Witness ==
    /\ tool = "ssh" /\ spc = "done"
    /\ sargs.test = "all" /\ "push" \in stimeouts
    /\ Len(cmds) = 7 /\ cmds[Len(cmds)].id = "backup"
    /\ sresults.failed >= 1

\* C12: in a run that sends with a positive delay, the delay is waited after
\* every send except the last one of the sorted order: the ended run waited
\* once after each of the first n - 1 sends and not after the final send,
\* whatever the order the fixtures were loaded in.
C12_DelayBetweenSends ==
    (tool = "replayer" /\ rpc = "done" /\ ~DryRun(rargs) /\ rargs.delay > 0
        /\ order # <<>>) =>
        /\ Len(sleeps) = Len(order) - 1
        /\ sleeps = [i \in 1..(Len(order) - 1) |-> order[i].name]
        /\ order[Len(order)].name \notin Range(sleeps)

\* the stored token between construction and login, and after a login that
\* did not succeed, is None; a stored token is the sid of the successful
\* login's answer, and stays so until logout
C13_State ==
    tool = "api" =>
        /\ apc = "login" => session_id = "None"
        /\ loginOk # "ok" => session_id = "None"
        /\ session_id # "None" => session_id = login_sid
        /\ (loginOk = "ok" /\ apc # "done") => session_id = login_sid

\* a step of logout() that returns (with a token it prints "Logged out")
LogoutReturns ==
    /\ tool = "api" /\ apc = "logout" /\ apc' = "done"
    /\ HasSession(session_id) => "Logged out" \in printed'

\* C13 as stated: the stored token is None until a successful login stores
\* the sid of the answer, and None again once logout has returned, whatever
\* the token and whatever the answer to the logout request.
C13_TokenNoneAfterLogout ==
    [](C13_State) /\ [][LogoutReturns => session_id' = "None"]_vars

\* C13: the stored token is None until a successful login stores the sid of
\* the answer; once logout has returned the client holds no session, whatever
\* the answer to the logout request: a non-empty token has been reset to None,
\* and an empty one (for which logout does nothing) is left as it is.
C13_TokenLifecycle ==
    [](C13_State)
        /\ [][LogoutReturns =>
                /\ ~HasSession(session_id')
                /\ HasSession(session_id) => session_id' = "None"
                /\ ~HasSession(session_id) => session_id' = session_id]_vars

\* C13 witness: the logout request met a transport failure and logout
\* returned with the token reset.
C13_Witness ==
    /\ tool = "api" /\ apc = "done" /\ loginOk = "ok" /\ login_sid = "S1"
    /\ IsLogout(requests[Len(requests)])
    /\ lastResult = [success |-> FALSE, error |-> "RequestException"]
    /\ "Logged out" \in printed
    /\ session_id = "None"

\* every request names its api, version and method
HasCallFields(r) == r.api # "" /\ r.method # "" /\ r.version >= 1

\* C14 as stated: the login request carries no _sid, and every request after
\* a successful login, the logout included, carries api, version, method and
\* the token of that login in _sid, whatever the token.
C14_SidOnEveryRequest ==
    tool = "api" =>
        \A i \in 1..Len(requests) :
            /\ HasCallFields(requests[i])
            /\ IsLogin(requests[i]) => ~requests[i].has_sid
            /\ i > 1 => (requests[i].has_sid /\ requests[i].sid = login_sid)

\* C14: the login request carries no _sid; every request after a successful
\* login that stored a non-empty token, the logout included, carries api,
\* version, method and that token in _sid; after a login that stored an empty
\* token no request carries a _sid.
C14_SidWhenTokenNonEmpty ==
    tool = "api" =>
        \A i \in 1..Len(requests) :
            /\ HasCallFields(requests[i])
            /\ IsLogin(requests[i]) => ~requests[i].has_sid
            /\ i > 1 =>
                  /\ loginOk = "ok"
                  /\ requests[i].has_sid <=> HasSession(login_sid)
                  /\ requests[i].has_sid => requests[i].sid = login_sid

\* C14 witness: a run with a non-empty token has issued in-session requests
\* and then the logout request, each stamped with the token.
C14_Witness ==
    /\ tool = "api" /\ apc = "done" /\ login_sid = "S1"
    /\ Len(requests) >= 4
    /\ IsLogout(requests[Len(requests)])
    /\ \A i \in 2..Len(requests) : requests[i].has_sid /\ requests[i].sid = "S1"

\* the positions of run_all_tests and of the backup listing that follows it
RunAllPositions == {"list", "webhook", "push", "sms", "health", "active"}

\* where run_all_tests goes on from a call that returned
GoesOnFrom(at) ==
    IF at \in {"list", "webhook"} THEN {"webhook", "push"}
    ELSE IF at = "push" THEN {"sms"}
    ELSE IF at = "sms" THEN {"health"}
    ELSE IF at = "health" THEN {"active"}
    ELSE {"backup"}

\* a request has just met a transport failure
TransportFailure == tool = "api" /\ requests' # requests /\ lastOutcome' = "transport"

\* C15, the steps: a request that met a transport failure returned success
\* false with the failure as its error and raised nothing; in run_all_tests
\* the sequence goes on from it to its next call.
C15_Step ==
    TransportFailure =>
        /\ lastResult' = [success |-> FALSE, error |-> "RequestException"]
        /\ raised' = raised
        /\ apc \in RunAllPositions => apc' \in GoesOnFrom(apc)
        /\ apc \notin {"login", "logout"} => (apc' # "done" /\ failures' = failures + 1)

C16_FallbackEveryCommand ==
    (tool = "ssh" /\ sshenv # "sshpass") =>
        /\ \A i \in 1..Len(cmds) :
              /\ cmds[i].transport = "ssh"
              /\ cmds[i].sudo <=> ~IsEcho(cmds[i])
        /\ warnings = Len(cmds)

CmdIds == {cmds[i].id : i \in 1..Len(cmds)}

\* the connectivity check has been run and has passed
ConnectivityPassed == cmds # <<>> /\ (Len(cmds) = 1 => spc # "done")

\* what the claim says of a run on the custom path
OnlyCustomPath ==
    /\ CmdIds \cap (Range(NOTIFICATION_TESTS) \cup {"health", "backup"}) = {}
    /\ \A i \in 1..Len(cmds) :
          cmds[i].id = "synonotify" =>
              /\ i > 1 /\ cmds[i - 1].id = "synodsmnotify"
              /\ "synodsmnotify" \in sfailed
    /\ spc = "done" =>
          /\ sexit = 0
          /\ "synodsmnotify" \in CmdIds
          /\ "synodsmnotify" \in sfailed => "synonotify" \in CmdIds

\* C17 as stated: whenever --custom is supplied, the empty message included,
\* and the connectivity check passed, the run executes the custom path only.
C17_CustomSuppliedOnly ==
    (tool = "ssh" /\ IsGiven(sargs.custom) /\ ConnectivityPassed) => OnlyCustomPath

\* C17: when a non-empty custom message is supplied and the connectivity
\* check passes, the alternative command is run only after the first custom
\* command failed, no catalog test, health query or backup listing is run,
\* and the run ends with status 0 whether or not a custom command succeeded;
\* a supplied empty message takes the catalog path like no message at all.
C17_CustomOnly ==
    tool = "ssh" =>
        /\ (IsGivenNonEmpty(sargs.custom) /\ ConnectivityPassed) => OnlyCustomPath
        /\ (~IsGivenNonEmpty(sargs.custom) /\ ConnectivityPassed) =>
              /\ CmdIds \cap {"synodsmnotify", "synonotify"} = {}
              /\ spc = "done" => "backup" \in CmdIds

\* C17 witness: both custom commands failed and the run ended with status 0
\* having run nothing but the connectivity check and the two of them.
C17_Witness ==
    /\ tool = "ssh" /\ spc = "done" /\ sexit = 0
    /\ sargs.custom = Some(Msg) /\ ~sargs.discover
    /\ Len(cmds) = 3 /\ cmds[3].id = "synonotify"
    /\ {"synodsmnotify", "synonotify"} \subseteq sfailed
====
